---- MODULE Spec2Model ----
(***************************************************************************)
(* Collective variables for OpenMM (craabreu/cvlib, cvpack).               *)
(*                                                                         *)
(*   src/cvlib/cvlib.py                  AbstractCollectiveVariable        *)
(*                                       (setUnit, getUnit,                *)
(*                                       evaluateInContext) and            *)
(*                                       RadiusOfGyration                  *)
(*   src/cvpack/openmm_force_wrapper.py  OpenMMForceWrapper                *)
(*                                                                         *)
(* The host engine (forces, force groups, system, context, state, XML      *)
(* serializer) and the Python object model (instance/class attributes,     *)
(* __bases__, isinstance) are modelled as far as the code above calls      *)
(* into them.                                                              *)
(***************************************************************************)
EXTENDS Integers, Sequences, FiniteSets, TLC

\* ------------------------------------------------------------- bounds
NumCV == 3          \* collective-variable instances
MaxOther == 32      \* upper end of the number of other forces of the system
MaxCalls == 2       \* evaluateInContext calls in one run
NumParticles == 3   \* particles of the system
MaxWrappers == 2    \* OpenMMForceWrapper objects constructed in one run

\* ------------------------------------------------- program constants
NumGroups == 32     \* range(32), cvlib.py line 68

VARIABLES
    system,         \* forces of the context's system (set of force ids)
    forceGroup,     \* force id -> force group (openmm.Force.getForceGroup)
    ctx,            \* "none" | "created" (no positions yet) | "ready"
    positions,      \* particle -> [x, y, z], or NoPositions
    pc,             \* position inside evaluateInContext: "idle"|"query"|"restore"
    frame,          \* locals of the running evaluateInContext call
    state,          \* the openmm.State returned by context.getState
    outcome,        \* what the last operation returned or raised
    calls,          \* number of calls made so far (bounded by MaxCalls)
    baseline,       \* history: the group assignment the user last set up
    clean,          \* history: every evaluateInContext since then returned
    classUnit,      \* class attribute AbstractCollectiveVariable._unit
    instUnit,       \* CV -> instance attribute _unit, or NoAttr
    lastSet,        \* history: CV -> unit last passed to setUnit, or NoAttr
    cvForce,        \* CV -> the CustomCentroidBondForce data of the instance
    rgAtoms,        \* history: CV -> the atoms its constructor was given
    wrapperBases,   \* OpenMMForceWrapper.__bases__ (a tuple of class names)
    wrappers        \* the OpenMMForceWrapper objects constructed so far

vars == <<system, forceGroup, ctx, positions, pc, frame, state, outcome, calls,
          baseline, clean, classUnit, instUnit, lastSet, cvForce, rgAtoms,
          wrapperBases, wrappers>>

evalVars == <<system, forceGroup, ctx, positions, pc, frame, state, calls,
              baseline, clean>>
unitVars == <<classUnit, instUnit, lastSet>>
rgVars == <<cvForce, rgAtoms>>
wrapVars == <<wrapperBases, wrappers>>

\* ------------------------------------------------------------ domains
CVs == 1..NumCV
Others == (NumCV + 1)..(NumCV + MaxOther)
Forces == CVs \cup Others
Groups == 0..(NumGroups - 1)
Particles == 0..(NumParticles - 1)
Units == {"dimensionless", "nanometers", "radians"}

NoAttr == "<no attribute>"
NoForce == [kind |-> "opaque"]
Unconstructed == [kind |-> "unconstructed"]
NoPositions == <<>>
NoFrame == [self |-> 0]
NoState == [groups |-> {}]
NoResult == [unit |-> NoAttr]
NoOutcome == [kind |-> "none", origin |-> "none", self |-> 0, before |-> <<>>,
              result |-> NoResult]


\* ----------------------------------------------------- exact arithmetic
\* The engine computes in floating point; the model computes the same
\* quantities exactly.  A rational is <<n, d>> with d > 0 in lowest terms.
RECURSIVE Gcd(_, _)
Gcd(a, b) == IF b = 0 THEN a ELSE Gcd(b, a % b)

Abs(a) == IF a < 0 THEN -a ELSE a

Rat(n, d) ==
    LET g == Gcd(Abs(n), Abs(d))
        s == IF d < 0 THEN -1 ELSE 1
    IN  <<(s * n) \div g, (s * d) \div g>>

RatAdd(p, q) == Rat(p[1] * q[2] + q[1] * p[2], p[2] * q[2])
RatSub(p, q) == Rat(p[1] * q[2] - q[1] * p[2], p[2] * q[2])
RatMul(p, q) == Rat(p[1] * q[1], p[2] * q[2])

\* A value of the expression language: an exact rational, the non-negative
\* square root of a rational, a non-finite result (division by zero), or
\* a real number outside these (never produced by the expressions below).
RatVal(q) == [t |-> "rat", q |-> q]
SqrtVal(q) == [t |-> "sqrt", q |-> q]
NanVal == [t |-> "nan"]
OtherVal == [t |-> "irrational"]

ValAdd(a, b) ==
    CASE a.t = "nan" \/ b.t = "nan" -> NanVal
      [] a.t = "rat" /\ b.t = "rat" -> RatVal(RatAdd(a.q, b.q))
      [] OTHER -> OtherVal

ValDiv(a, b) ==
    CASE a.t = "nan" \/ b.t = "nan" -> NanVal
      [] a.t = "rat" /\ b.t = "rat" ->
            IF b.q[1] = 0 THEN NanVal
            ELSE RatVal(Rat(a.q[1] * b.q[2], a.q[2] * b.q[1]))
      [] OTHER -> OtherVal

ValSquare(a) ==
    CASE a.t = "nan" -> NanVal
      [] a.t = "rat" -> RatVal(RatMul(a.q, a.q))
      [] a.t = "sqrt" -> RatVal(a.q)
      [] OTHER -> OtherVal

ValSqrt(a) ==
    CASE a.t = "nan" -> NanVal
      [] a.t = "rat" -> IF a.q[1] < 0 THEN NanVal ELSE SqrtVal(a.q)
      [] OTHER -> OtherVal

\* ------------------------------------------ energy expressions (tokens)
\* An energy expression is the text the constructor builds, held as the
\* sequence of its lexical tokens: a symbol, a number, or a group variable
\* g<k>.
Sym(s) == [t |-> s]
Num(k) == [t |-> "num", v |-> k]
G(k) == [t |-> "g", v |-> k]

\* sep.join(parts)
RECURSIVE Join(_, _)
Join(sep, parts) ==
    IF Len(parts) = 0 THEN <<>>
    ELSE IF Len(parts) = 1 THEN parts[1]
    ELSE parts[1] \o sep \o Join(sep, Tail(parts))

\* The group variables an expression mentions.
GroupRefs(toks) == {toks[i].v : i \in {j \in DOMAIN toks : toks[j].t = "g"}}

\* The parser of the engine's expression language, restricted to the
\* operators the expressions of this repository use:
\*   expr  ::= term  { "+" term }
\*   term  ::= power { "/" power }
\*   power ::= atom [ "^" atom ]
\*   atom  ::= number | "(" expr ")" | "sqrt" "(" expr ")"
\*           | "distance" "(" g "," g ")"
ParseFail == [ok |-> FALSE, pos |-> 0, ast |-> [op |-> "none"]]
ParseOk(p, a) == [ok |-> TRUE, pos |-> p, ast |-> a]
At(toks, p) == IF p \in 1..Len(toks) THEN toks[p] ELSE [t |-> "eof"]

RECURSIVE ParseExpr(_, _), ParseExprTail(_, _), ParseTerm(_, _),
          ParseTermTail(_, _), ParsePower(_, _), ParseAtom(_, _)

ParseAtom(toks, p) ==
    LET tk == At(toks, p) IN
    CASE tk.t = "num" -> ParseOk(p + 1, [op |-> "num", v |-> tk.v])
      [] tk.t = "(" ->
            LET e == ParseExpr(toks, p + 1) IN
            IF e.ok /\ At(toks, e.pos).t = ")"
            THEN ParseOk(e.pos + 1, e.ast) ELSE ParseFail
      [] tk.t = "sqrt" ->
            IF At(toks, p + 1).t # "(" THEN ParseFail
            ELSE LET e == ParseExpr(toks, p + 2) IN
                 IF e.ok /\ At(toks, e.pos).t = ")"
                 THEN ParseOk(e.pos + 1, [op |-> "sqrt", x |-> e.ast])
                 ELSE ParseFail
      [] tk.t = "distance" ->
            IF /\ At(toks, p + 1).t = "("
               /\ At(toks, p + 2).t = "g"
               /\ At(toks, p + 3).t = ","
               /\ At(toks, p + 4).t = "g"
               /\ At(toks, p + 5).t = ")"
            THEN ParseOk(p + 6, [op |-> "distance",
                                 a |-> toks[p + 2].v, b |-> toks[p + 4].v])
            ELSE ParseFail
      [] OTHER -> ParseFail

ParsePower(toks, p) ==
    LET a == ParseAtom(toks, p) IN
    IF ~a.ok THEN ParseFail
    ELSE IF At(toks, a.pos).t # "^" THEN a
    ELSE LET b == ParseAtom(toks, a.pos + 1) IN
         IF b.ok THEN ParseOk(b.pos, [op |-> "pow", l |-> a.ast, r |-> b.ast])
         ELSE ParseFail

ParseTermTail(toks, left) ==
    IF At(toks, left.pos).t # "/" THEN left
    ELSE LET r == ParsePower(toks, left.pos + 1) IN
         IF r.ok
         THEN ParseTermTail(toks, ParseOk(r.pos,
                  [op |-> "div", l |-> left.ast, r |-> r.ast]))
         ELSE ParseFail

ParseTerm(toks, p) ==
    LET a == ParsePower(toks, p) IN
    IF a.ok THEN ParseTermTail(toks, a) ELSE ParseFail

ParseExprTail(toks, left) ==
    IF At(toks, left.pos).t # "+" THEN left
    ELSE LET r == ParseTerm(toks, left.pos + 1) IN
         IF r.ok
         THEN ParseExprTail(toks, ParseOk(r.pos,
                  [op |-> "add", l |-> left.ast, r |-> r.ast]))
         ELSE ParseFail

ParseExpr(toks, p) ==
    LET a == ParseTerm(toks, p) IN
    IF a.ok THEN ParseExprTail(toks, a) ELSE ParseFail

\* The whole text is one expression.
Parse(toks) ==
    LET e == ParseExpr(toks, 1) IN
    IF e.ok /\ e.pos = Len(toks) + 1 THEN e ELSE ParseFail


\* ------------------------------------- CustomCentroidBondForce (engine)
RECURSIVE SumSeq(_)
SumSeq(s) == IF Len(s) = 0 THEN 0 ELSE Head(s) + SumSeq(Tail(s))

\* The position of a group: the weighted mean of its particles' positions,
\* the weights normalised by their sum.  ok is FALSE for a group of total
\* weight zero, whose position is not a number.
Centroid(group, pos) ==
    LET n == Len(group.particles)
        W == SumSeq(group.weights)
        D == IF W = 0 THEN 1 ELSE W
    IN  [ok |-> W # 0,
         x |-> Rat(SumSeq([i \in 1..n |-> group.weights[i] * pos[group.particles[i]].x]), D),
         y |-> Rat(SumSeq([i \in 1..n |-> group.weights[i] * pos[group.particles[i]].y]), D),
         z |-> Rat(SumSeq([i \in 1..n |-> group.weights[i] * pos[group.particles[i]].z]), D)]

Dist2(a, b) ==
    LET dx == RatSub(a.x, b.x)
        dy == RatSub(a.y, b.y)
        dz == RatSub(a.z, b.z)
    IN  RatAdd(RatMul(dx, dx), RatAdd(RatMul(dy, dy), RatMul(dz, dz)))

\* The value of a parsed expression; cent[k] is the position of g<k>.
RECURSIVE Eval(_, _)
Eval(ast, cent) ==
    CASE ast.op = "num" -> RatVal(Rat(ast.v, 1))
      [] ast.op = "distance" ->
            IF cent[ast.a].ok /\ cent[ast.b].ok
            THEN SqrtVal(Dist2(cent[ast.a], cent[ast.b]))
            ELSE NanVal
      [] ast.op = "sqrt" -> ValSqrt(Eval(ast.x, cent))
      [] ast.op = "add" -> ValAdd(Eval(ast.l, cent), Eval(ast.r, cent))
      [] ast.op = "div" -> ValDiv(Eval(ast.l, cent), Eval(ast.r, cent))
      [] ast.op = "pow" ->
            IF ast.r.op = "num" /\ ast.r.v = 2
            THEN ValSquare(Eval(ast.l, cent))
            ELSE OtherVal
      [] OTHER -> NanVal

\* g<k> of a bond is the k-th group the bond lists (group indices from 0).
BondEnergy(force, bond, pos) ==
    Eval(Parse(force.energy).ast,
         [k \in 1..Len(bond.groups) |->
             Centroid(force.groups[bond.groups[k] + 1], pos)])

RECURSIVE SumBonds(_, _, _)
SumBonds(force, bonds, pos) ==
    IF Len(bonds) = 0 THEN RatVal(Rat(0, 1))
    ELSE IF Len(bonds) = 1 THEN BondEnergy(force, bonds[1], pos)
    ELSE ValAdd(BondEnergy(force, bonds[1], pos),
                SumBonds(force, Tail(bonds), pos))

\* The energy the engine computes for a CustomCentroidBondForce.
CentroidBondEnergy(force, pos) == SumBonds(force, force.bonds, pos)

\* Creating a context compiles the expression of each force: the text must
\* parse and may name only g1..g<numGroupsPerBond>.
Compiles(force) ==
    /\ Parse(force.energy).ok
    /\ GroupRefs(force.energy) \subseteq 1..force.numGroupsPerBond

\* ---------------------------------------------------- RadiusOfGyration
\* f"distance(g{i+1}, g{num_groups})^2"
RgTerm(i, num_groups) ==
    <<Sym("distance"), Sym("("), G(i + 1), Sym(","), G(num_groups), Sym(")"),
      Sym("^"), Num(2)>>

\* Faulty variant: divides by num_groups instead of num_atoms.
RgExpressionOverGroups(atoms) ==
    LET num_atoms == Len(atoms)
        num_groups == num_atoms + 1
        rgsq == Join(<<Sym("+")>>,
                     [i \in 1..num_atoms |-> RgTerm(i - 1, num_groups)])
    IN  <<Sym("sqrt"), Sym("("), Sym("(")>> \o rgsq
            \o <<Sym(")"), Sym("/"), Num(num_groups), Sym(")")>>

\* f"sqrt(({rgsq})/{num_atoms})"
RgExpression(atoms) ==
    LET num_atoms == Len(atoms)
        num_groups == num_atoms + 1
        rgsq == Join(<<Sym("+")>>,
                     [i \in 1..num_atoms |-> RgTerm(i - 1, num_groups)])
    IN  <<Sym("sqrt"), Sym("("), Sym("(")>> \o rgsq
            \o <<Sym(")"), Sym("/"), Num(num_atoms), Sym(")")>>

\* Faulty variant: the group of all atoms is registered first.
RgGroupsCentroidFirst(atoms) ==
    <<[particles |-> atoms, weights |-> [i \in 1..Len(atoms) |-> 1]]>>
        \o [i \in 1..Len(atoms) |-> [particles |-> <<atoms[i]>>, weights |-> <<1>>]]

\* for atom in atoms: addGroup([atom], [1]); then addGroup(atoms, [1]*n)
RgGroups(atoms) ==
    [i \in 1..Len(atoms) |-> [particles |-> <<atoms[i]>>, weights |-> <<1>>]]
        \o <<[particles |-> atoms, weights |-> [i \in 1..Len(atoms) |-> 1]]>>

\* addBond(list(range(num_groups)), [])
RgBonds(atoms) ==
    <<[groups |-> [k \in 1..(Len(atoms) + 1) |-> k - 1], parameters |-> <<>>]>>

\* The force object RadiusOfGyration.__init__ leaves behind.
RadiusOfGyration(atoms) ==
    [kind |-> "CustomCentroidBondForce",
     numGroupsPerBond |-> Len(atoms) + 1,
     energy |-> RgExpression(atoms),
     groups |-> RgGroups(atoms),
     bonds |-> RgBonds(atoms),
     pbc |-> FALSE]

\* -------------------------------------------------- setUnit / getUnit
\* Faulty variant: the unit is stored on the class.
setUnitOnClass(self, cv_unit) ==
    /\ classUnit' = cv_unit
    /\ instUnit' = instUnit

\* self._unit = cv_unit: an instance attribute; the class attribute stays.
setUnit(self, cv_unit) ==
    /\ instUnit' = [instUnit EXCEPT ![self] = cv_unit]
    /\ classUnit' = classUnit

\* return self._unit: the instance attribute, else the class attribute.
getUnit(self) ==
    IF instUnit[self] # NoAttr THEN instUnit[self] ELSE classUnit


\* ------------------------------------------------- engine: energy query
\* The energy of one force.  A CustomCentroidBondForce is evaluated from its
\* expression; any other force is opaque and contributes a number of its own
\* (its id stands for it).
ForceEnergy(f) ==
    IF f \in CVs /\ cvForce[f].kind = "CustomCentroidBondForce"
    THEN CentroidBondEnergy(cvForce[f], positions)
    ELSE RatVal(Rat(f, 1))

\* The potential energy of the force groups asked for: the sum of the
\* energies of the forces of the system that belong to them, held as its
\* terms (force -> energy).
PotentialEnergy(groups) ==
    [f \in {h \in system : forceGroup[h] \in groups} |-> ForceEnergy(f)]

\* context.getState(getEnergy=True, groups=groups)
getState(groups) ==
    [groups |-> groups,
     energy |-> [value |-> PotentialEnergy(groups), unit |-> "kilojoule/mole"]]

\* quantity.value_in_unit_system(md_unit_system): the bare number; kJ/mol is
\* the energy unit of the MD unit system.
in_md_units(quantity) == quantity.value

\* ---------------------------------------------------- evaluateInContext
Done(kind, origin, self, before, result) ==
    [kind |-> kind, origin |-> origin, self |-> self, before |-> before,
     result |-> result]

\* Faulty variant: the groups in use are not taken out.
FreeGroupsNotSubtracted(forces) == Groups

\* set(range(32)) - set(f.getForceGroup() for f in forces)
FreeGroupsOf(forces) == Groups \ {forceGroup[f] : f \in forces}

\* Faulty variant: the error on exhaustion comes from the engine.
RaisedByEngineOnExhaustion(self) ==
    outcome' = Done("OpenMMException", "engine", self, forceGroup, NoResult)

\* next(iter(free_groups)) on the empty set: StopIteration, raised by the
\* interpreter's next(), before the engine is called.
RaiseOnExhaustion(self) ==
    outcome' = Done("StopIteration", "next", self, forceGroup, NoResult)

\* Lines 67-71: read the groups in use, pick a free one, move self to it.
\* The element next(iter(s)) yields is any element of the set.
EvalCall(self) ==
    /\ pc = "idle"
    /\ ctx # "none"
    /\ calls < MaxCalls
    /\ calls' = calls + 1
    /\ LET forces == system
           free_groups == FreeGroupsOf(forces)
           old_group == forceGroup[self]
       IN  IF free_groups = {}
           THEN /\ RaiseOnExhaustion(self)
                /\ clean' = FALSE
                /\ UNCHANGED <<forceGroup, pc, frame>>
           ELSE \E new_group \in free_groups :
                /\ forceGroup' = [forceGroup EXCEPT ![self] = new_group]
                /\ frame' = [self |-> self, old_group |-> old_group,
                             new_group |-> new_group, before |-> forceGroup]
                /\ pc' = "query"
                /\ outcome' = NoOutcome
                /\ clean' = clean
    /\ UNCHANGED <<system, ctx, positions, state, baseline>>
    /\ UNCHANGED <<unitVars, rgVars, wrapVars>>

\* Line 72: the energy query.  The engine raises when the context has no
\* positions; the exception leaves evaluateInContext at once.
EvalQuery ==
    /\ pc = "query"
    /\ IF ctx = "ready"
       THEN /\ state' = getState({frame.new_group})
            /\ pc' = "restore"
            /\ UNCHANGED <<frame, outcome, clean>>
       ELSE /\ outcome' = Done("OpenMMException", "engine", frame.self,
                               frame.before, NoResult)
            /\ pc' = "idle"
            /\ frame' = NoFrame
            /\ clean' = FALSE
            /\ state' = state
    /\ UNCHANGED <<system, forceGroup, ctx, positions, calls, baseline>>
    /\ UNCHANGED <<unitVars, rgVars, wrapVars>>

\* Faulty variant: returns without setForceGroup(old_group).
EvalReturnNoRestore ==
    /\ pc = "restore"
    /\ forceGroup' = forceGroup
    /\ outcome' = Done("value", "return", frame.self, frame.before,
                       [value |-> in_md_units(state.energy),
                        unit |-> getUnit(frame.self)])
    /\ pc' = "idle"
    /\ frame' = NoFrame
    /\ state' = NoState
    /\ UNCHANGED <<system, ctx, positions, calls, baseline, clean>>
    /\ UNCHANGED <<unitVars, rgVars, wrapVars>>

\* Lines 73-74: restore the group, return the energy as a quantity.
EvalReturn ==
    /\ pc = "restore"
    /\ forceGroup' = [forceGroup EXCEPT ![frame.self] = frame.old_group]
    /\ outcome' = Done("value", "return", frame.self, frame.before,
                       [value |-> in_md_units(state.energy),
                        unit |-> getUnit(frame.self)])
    /\ pc' = "idle"
    /\ frame' = NoFrame
    /\ state' = NoState
    /\ UNCHANGED <<system, ctx, positions, calls, baseline, clean>>
    /\ UNCHANGED <<unitVars, rgVars, wrapVars>>

\* ------------------------------------------ the caller (docstring usage)
\* system.addForce(cv), before the context is created.
AddForce(f) ==
    /\ pc = "idle"
    /\ ctx = "none"
    /\ f \in CVs \ system
    /\ cvForce[f].kind # "unconstructed"
    /\ system' = system \cup {f}
    /\ outcome' = NoOutcome
    /\ UNCHANGED <<forceGroup, ctx, positions, pc, frame, state, calls,
                   baseline, clean>>
    /\ UNCHANGED <<unitVars, rgVars, wrapVars>>

\* force.setForceGroup(g), called by the user.
SetForceGroup(f, g) ==
    /\ pc = "idle"
    /\ forceGroup[f] # g
    /\ forceGroup' = [forceGroup EXCEPT ![f] = g]
    /\ baseline' = forceGroup'
    /\ clean' = TRUE
    /\ outcome' = NoOutcome
    /\ UNCHANGED <<system, ctx, positions, pc, frame, state, calls>>
    /\ UNCHANGED <<unitVars, rgVars, wrapVars>>

\* openmm.Context(system, integrator, platform): the engine compiles the
\* expression of every custom force and raises if one does not compile.
CreateContext ==
    /\ pc = "idle"
    /\ ctx = "none"
    /\ IF \A f \in system \cap CVs :
              cvForce[f].kind = "CustomCentroidBondForce" => Compiles(cvForce[f])
       THEN /\ ctx' = "created"
            /\ outcome' = NoOutcome
       ELSE /\ ctx' = ctx
            /\ outcome' = Done("OpenMMException", "engine", 0, forceGroup, NoResult)
    /\ UNCHANGED <<system, forceGroup, positions, pc, frame, state, calls,
                   baseline, clean>>
    /\ UNCHANGED <<unitVars, rgVars, wrapVars>>

\* context.setPositions(pos)
SetPositions(pos) ==
    /\ pc = "idle"
    /\ ctx = "created"
    /\ ctx' = "ready"
    /\ positions' = pos
    /\ outcome' = NoOutcome
    /\ UNCHANGED <<system, forceGroup, pc, frame, state, calls, baseline, clean>>
    /\ UNCHANGED <<unitVars, rgVars, wrapVars>>

\* ------------------------------------------------------- specification
Origin == [x |-> 0, y |-> 0, z |-> 0]
\* Where a particle may sit: the origin and four points on the axes.
Points == {Origin,
           [x |-> 1, y |-> 0, z |-> 0], [x |-> 2, y |-> 0, z |-> 0],
           [x |-> 0, y |-> 1, z |-> 0], [x |-> 0, y |-> 0, z |-> 1]}

\* The other forces of the system: the j-th sits in group (j-1) mod 32.
OtherCounts == (MaxOther - 3)..MaxOther
UserGroups == {0, 1, NumGroups - 1}

InitGroups == [f \in Forces |-> IF f \in CVs THEN 0 ELSE (f - NumCV - 1) % NumGroups]

InitIdle ==
    /\ forceGroup = InitGroups
    /\ baseline = InitGroups
    /\ clean = TRUE
    /\ ctx = "none"
    /\ positions = NoPositions
    /\ pc = "idle"
    /\ frame = NoFrame
    /\ state = NoState
    /\ outcome = NoOutcome
    /\ calls = 0
    /\ classUnit = "dimensionless"
    /\ rgAtoms = [c \in CVs |-> <<>>]
    /\ wrapperBases = <<"BaseCollectiveVariable">>
    /\ wrappers = <<>>

\* evaluateInContext on collective variables of some subclass, the first of
\* which has had its unit set.
Init ==
    /\ InitIdle
    /\ \E m \in OtherCounts : system = {NumCV + j : j \in 1..m}
    /\ instUnit = [c \in CVs |-> IF c = 1 THEN "nanometers" ELSE NoAttr]
    /\ lastSet = instUnit
    /\ cvForce = [c \in CVs |-> NoForce]

Next ==
    \/ \E f \in CVs : AddForce(f)
    \/ \E f \in CVs, g \in UserGroups : SetForceGroup(f, g)
    \/ CreateContext
    \/ SetPositions([p \in Particles |-> Origin])
    \/ \E self \in CVs : EvalCall(self)
    \/ EvalQuery
    \/ EvalReturn

Spec == Init /\ [][Next]_vars


\* ------------------------------------- setUnit / getUnit as operations
SetUnit(self, cv_unit) ==
    /\ pc = "idle"
    /\ setUnit(self, cv_unit)
    /\ lastSet' = [lastSet EXCEPT ![self] = cv_unit]
    /\ outcome' = Done("setUnit", "return", self, forceGroup, NoResult)
    /\ UNCHANGED <<evalVars, rgVars, wrapVars>>

GetUnit(self) ==
    /\ pc = "idle"
    /\ outcome' = Done("getUnit", "return", self, forceGroup,
                       [unit |-> getUnit(self)])
    /\ UNCHANGED <<evalVars, unitVars, rgVars, wrapVars>>

\* Instances that are fresh (no instance attribute) or were constructed as a
\* RadiusOfGyration, whose constructor calls setUnit(nanometers).
InitUnit ==
    /\ InitIdle
    /\ system = {}
    /\ instUnit \in [CVs -> {NoAttr, "nanometers"}]
    /\ lastSet = instUnit
    /\ cvForce = [c \in CVs |-> NoForce]

NextUnit ==
    \/ \E self \in CVs, u \in Units : SetUnit(self, u)
    \/ \E self \in CVs : GetUnit(self)

SpecUnit == InitUnit /\ [][NextUnit]_vars

\* ------------------------------------- RadiusOfGyration as operations
\* Lists of distinct atoms of the system, the empty list included.
AtomLists ==
    {s \in UNION {[1..n -> Particles] : n \in 0..NumParticles} :
        \A i, j \in DOMAIN s : i # j => s[i] # s[j]}

\* rg = RadiusOfGyration(atoms): lines 119-131, setUnit(nanometers) last.
ConstructRg(self, atoms) ==
    /\ pc = "idle"
    /\ cvForce[self].kind = "unconstructed"
    /\ cvForce' = [cvForce EXCEPT ![self] = RadiusOfGyration(atoms)]
    /\ rgAtoms' = [rgAtoms EXCEPT ![self] = atoms]
    /\ setUnit(self, "nanometers")
    /\ lastSet' = [lastSet EXCEPT ![self] = "nanometers"]
    /\ outcome' = Done("constructed", "return", self, forceGroup, NoResult)
    /\ UNCHANGED <<evalVars, wrapVars>>

\* A system whose other forces leave one group free; the collective
\* variable is yet to be constructed.
InitRg ==
    /\ InitIdle
    /\ system = {NumCV + j : j \in 1..(NumGroups - 1)}
    /\ instUnit = [c \in CVs |-> NoAttr]
    /\ lastSet = instUnit
    /\ cvForce = [c \in CVs |-> Unconstructed]

\* The docstring's course: construct, add to the system, create the
\* context, set the positions, evaluate once.
NextRg ==
    \/ \E atoms \in AtomLists : ConstructRg(1, atoms)
    \/ AddForce(1)
    \/ 1 \in system /\ CreateContext
    \/ \E pos \in [Particles -> Points] : SetPositions(pos)
    \/ ctx = "ready" /\ calls = 0 /\ EvalCall(1)
    \/ EvalQuery
    \/ EvalReturn

SpecRg == InitRg /\ [][NextRg]_vars

\* --------------------------------------------------- OpenMMForceWrapper
\* Host force classes; each derives from openmm.Force.
HostClasses == {"CustomAngleForce", "CustomBondForce", "CustomTorsionForce"}
Energies == {"theta", "r"}

\* A force object of the host, and the text the XML serializer writes for it.
ForceObject(class, energy) == [type |-> "object", class |-> class, energy |-> energy]
Text(t) == [type |-> "str", text |-> t]

\* openmm.XmlSerializer.serialize(force)
serialize(force) == Text(<<"<Force", force.class, force.energy, "/>">>)

\* openmm.XmlSerializer.deserialize(text) succeeds on the text of a force
\* and yields a new object of the class the text names.
Deserializable(xml) ==
    /\ Len(xml.text) = 4
    /\ xml.text[1] = "<Force"
    /\ xml.text[2] \in HostClasses
    /\ xml.text[4] = "/>"

deserialize(xml) == ForceObject(xml.text[2], xml.text[3])

\* The classes a class derives from, itself included.
Ancestors(class) ==
    IF class \in HostClasses THEN {class, "Force"} ELSE {class}

\* isinstance(openmmForce, openmm.Force)
IsForce(value) == value.type = "object" /\ "Force" \in Ancestors(value.class)

Range(seq) == {seq[i] : i \in DOMAIN seq}

\* isinstance(wrapper, class): every wrapper is of type OpenMMForceWrapper,
\* whose bases are those the class has now.
IsInstance(wrapper, class) ==
    class \in {"OpenMMForceWrapper"} \cup UNION {Ancestors(b) : b \in Range(wrapperBases)}

\* Faulty variant: the bases are replaced, not extended.
ExtendBasesReplacing(bases, class) == <<class>>

\* self.__class__.__bases__ += (force_copy.__class__,)
ExtendBases(bases, class) == Append(bases, class)

\* Assigning __bases__ raises TypeError("duplicate base class ...") when a
\* class occurs twice; the class is then left as it was.
HasDuplicates(bases) == \E i, j \in DOMAIN bases : i # j /\ bases[i] = bases[j]

\* BaseCollectiveVariable._registerCV(unit, *args) and _registerPeriod(period)
\* keep the unit, the constructor arguments and the period on the object.
registerCV(obj, unit, args) == [obj EXCEPT !.unit = unit, !.args = args]
registerPeriod(obj, period) == [obj EXCEPT !.period = period]

\* mmunit.SerializableUnit(unit)
SerializableUnit(unit) == [serializable |-> unit]

CtorResult(input, valid) ==
    [unit |-> NoAttr, form |-> input.type, valid |-> valid,
     class |-> IF input.type = "object" THEN input.class ELSE input.text[2]]

\* OpenMMForceWrapper(openmmForce, unit, period): lines 84-92.
Construct(openmmForce, unit, period) ==
    /\ pc = "idle"
    /\ Len(wrappers) < MaxWrappers
    /\ LET xml == IF IsForce(openmmForce) THEN serialize(openmmForce)
                  ELSE openmmForce
           sunit == SerializableUnit(unit)
       IN  IF ~Deserializable(xml)
           THEN /\ outcome' = Done("OpenMMException", "engine", 0, forceGroup,
                                   CtorResult(openmmForce, FALSE))
                /\ UNCHANGED wrapVars
           ELSE LET force_copy == deserialize(xml)
                    self == [dict |-> [this |-> force_copy],
                             unit |-> NoAttr, args |-> <<>>, period |-> "None"]
                    bases == ExtendBases(wrapperBases, force_copy.class)
                IN  IF HasDuplicates(bases)
                    THEN /\ outcome' = Done("TypeError", "__bases__", 0, forceGroup,
                                            CtorResult(openmmForce, TRUE))
                         /\ UNCHANGED wrapVars
                    ELSE /\ wrapperBases' = bases
                         /\ wrappers' = Append(wrappers,
                               LET cv == registerCV(self, sunit, <<xml, sunit, period>>)
                               IN  IF period # "None" THEN registerPeriod(cv, period)
                                   ELSE cv)
                         /\ outcome' = Done("constructed", "return",
                                            Len(wrappers) + 1, forceGroup,
                                            CtorResult(openmmForce, TRUE))
    /\ UNCHANGED <<evalVars, unitVars, rgVars>>

\* What a caller may pass: a force object, the text of one, or other text.
ForceInputs ==
    {ForceObject(c, e) : c \in HostClasses, e \in Energies}
        \cup {serialize(ForceObject(c, e)) : c \in HostClasses, e \in Energies}
        \cup {Text(<<"<Other", "CustomAngleForce", "theta", "/>">>)}

InitWrap ==
    /\ InitIdle
    /\ system = {}
    /\ instUnit = [c \in CVs |-> NoAttr]
    /\ lastSet = instUnit
    /\ cvForce = [c \in CVs |-> NoForce]

NextWrap ==
    \E f \in ForceInputs, u \in {"radians", "dimensionless"},
       p \in {"None", "2*pi"} : Construct(f, u, p)

SpecWrap == InitWrap /\ [][NextWrap]_vars

\* ============================================================ properties

\* Whether the forces of the system occupied every force group.
Exhausted(groupOf) == {groupOf[f] : f \in system} = Groups

EvalKinds == {"value", "StopIteration", "OpenMMException"}

\* C1: when evaluateInContext returns normally, every force of the system,
\* the evaluated variable included, is in the group it was in before the
\* call; and as long as every call since the user last arranged the groups
\* has returned normally, the assignment is the one the user arranged.
C1_GroupsRestoredOnReturn ==
    /\ (pc = "idle" /\ outcome.kind = "value") =>
          /\ forceGroup = outcome.before
          /\ ~Exhausted(outcome.before)
    /\ (pc = "idle" /\ clean) => forceGroup = baseline

\* A second successful call returned for a variable that is in the system
\* and shares its group with another force.
C1_Witness ==
    /\ pc = "idle"
    /\ outcome.kind = "value"
    /\ calls = 2
    /\ clean
    /\ outcome.self \in system
    /\ \E f \in system \ {outcome.self} : forceGroup[f] = forceGroup[outcome.self]

\* C2: the temporary group is a group of 0..31 that no force of the system
\* occupied when the call began (the variable's own group included, when it
\* is one of them); while the variable sits in it no other force of the
\* system does; and the energy query names that group and no other, so that
\* the energy it returns has no term of another force.
C2_TemporaryGroupIsolated ==
    /\ pc \in {"query", "restore"} =>
          /\ frame.new_group \in Groups
          /\ \A f \in system : frame.before[f] # frame.new_group
          /\ forceGroup[frame.self] = frame.new_group
          /\ \A f \in system \ {frame.self} : forceGroup[f] # frame.new_group
    /\ pc = "restore" =>
          /\ state.groups = {frame.new_group}
          /\ DOMAIN state.energy.value \subseteq {frame.self}

\* The query has been made for a variable of a system that holds another
\* collective variable too, and its energy is the variable's alone.
C2_Witness ==
    /\ pc = "restore"
    /\ frame.self \in system
    /\ Cardinality(system \cap CVs) = 2
    /\ frame.new_group # frame.old_group
    /\ state.groups = {frame.new_group}
    /\ DOMAIN state.energy.value = {frame.self}

\* C3 as stated: when the forces occupy all 32 groups the call fails with
\* an error raised by the host engine.
C3_ExhaustionRaisedByEngine ==
    (pc = "idle" /\ outcome.kind \in EvalKinds /\ outcome.self \in CVs
        /\ Exhausted(outcome.before))
    => (outcome.kind # "value" /\ outcome.origin = "engine")

\* C3 amended: when the forces occupy all 32 groups the call returns no
\* value and fails with StopIteration, raised by next() on the empty set of
\* free groups before the engine is asked anything: no group has changed and
\* no energy was queried.
C3_ExhaustionRaisesStopIteration ==
    (pc = "idle" /\ outcome.kind \in EvalKinds /\ outcome.self \in CVs
        /\ Exhausted(outcome.before))
    => /\ outcome.kind = "StopIteration"
       /\ outcome.origin = "next"
       /\ forceGroup = outcome.before
       /\ state = NoState

\* The call failed on a system whose 32nd group was held by the evaluated
\* variable itself.
C3_Witness ==
    /\ pc = "idle"
    /\ outcome.kind = "StopIteration"
    /\ Exhausted(outcome.before)
    /\ outcome.self \in system
    /\ Cardinality({outcome.before[f] : f \in system \ {outcome.self}})
          = NumGroups - 1

\* C7: on every exit from evaluateInContext, by return or by error, the
\* evaluated variable is in the group it was in before the call.
C7_GroupRestoredOnEveryExit ==
    (pc = "idle" /\ outcome.kind \in EvalKinds /\ outcome.self \in CVs)
    => forceGroup[outcome.self] = outcome.before[outcome.self]

\* C6: getUnit on an instance returns the unit last passed to setUnit on that
\* instance, or dimensionless if setUnit was never called on it, whatever
\* was set on the other instances.
UnitExpected(self) ==
    IF lastSet[self] = NoAttr THEN "dimensionless" ELSE lastSet[self]

C6_GetUnitReturnsOwnLastSet ==
    /\ \A self \in CVs : getUnit(self) = UnitExpected(self)
    /\ outcome.kind = "getUnit" =>
          outcome.result.unit = UnitExpected(outcome.self)

\* getUnit answered dimensionless for an instance never set, after another
\* instance had been set to radians.
C6_Witness ==
    /\ outcome.kind = "getUnit"
    /\ lastSet[outcome.self] = NoAttr
    /\ outcome.result.unit = "dimensionless"
    /\ \E other \in CVs \ {outcome.self} : lastSet[other] = "radians"


\* The radius of gyration by its definition: with S the sum of the n
\* positions, n^3 Rg^2 is the sum over the atoms of |n r_i - S|^2.
RgSquared(atoms, pos) ==
    LET n == Len(atoms)
        Sx == SumSeq([i \in 1..n |-> pos[atoms[i]].x])
        Sy == SumSeq([i \in 1..n |-> pos[atoms[i]].y])
        Sz == SumSeq([i \in 1..n |-> pos[atoms[i]].z])
        dev(i) == (n * pos[atoms[i]].x - Sx) * (n * pos[atoms[i]].x - Sx)
                  + (n * pos[atoms[i]].y - Sy) * (n * pos[atoms[i]].y - Sy)
                  + (n * pos[atoms[i]].z - Sz) * (n * pos[atoms[i]].z - Sz)
    IN  Rat(SumSeq([i \in 1..n |-> dev(i)]), n * n * n)

\* C5: for a non-empty list of n atoms and any positions, the value
\* evaluateInContext returns for RadiusOfGyration(atoms) is
\* sqrt((1/n) * sum of the squared distances of the atoms to their unweighted
\* centroid), in nanometers.
C5_ValueIsRadiusOfGyration ==
    (pc = "idle" /\ outcome.kind = "value" /\ outcome.self \in system
        /\ cvForce[outcome.self].kind = "CustomCentroidBondForce")
    => /\ Len(rgAtoms[outcome.self]) >= 1
       /\ DOMAIN outcome.result.value = {outcome.self}
       /\ outcome.result.value[outcome.self]
             = SqrtVal(RgSquared(rgAtoms[outcome.self], positions))
       /\ outcome.result.unit = "nanometers"

\* The value was returned for three atoms that are not all at one point,
\* listed in an order other than that of their indices.
C5_Witness ==
    /\ pc = "idle"
    /\ outcome.kind = "value"
    /\ Len(rgAtoms[outcome.self]) = 3
    /\ rgAtoms[outcome.self][1] > rgAtoms[outcome.self][2]
    /\ outcome.result.value[outcome.self].t = "sqrt"
    /\ outcome.result.value[outcome.self].q = <<2, 3>>

\* The numbers an expression divides by.
Divisors(toks) ==
    {toks[i + 1].v : i \in {j \in 1..(Len(toks) - 1) :
                              toks[j].t = "/" /\ toks[j + 1].t = "num"}}

\* What the constructor registers with the engine, for a list of n atoms.
RgStructure(force, atoms) ==
    LET n == Len(atoms) IN
    /\ force.numGroupsPerBond = n + 1
    /\ Len(force.groups) = n + 1
    /\ \A i \in 1..n : force.groups[i] = [particles |-> <<atoms[i]>>, weights |-> <<1>>]
    /\ force.groups[n + 1].particles = atoms
    /\ Len(force.groups[n + 1].weights) = n
    /\ \A i \in 1..n : force.groups[n + 1].weights[i] = 1
    /\ Len(force.bonds) = 1
    /\ Len(force.bonds[1].groups) = n + 1
    /\ \A k \in 1..(n + 1) : force.bonds[1].groups[k] = k - 1
    /\ GroupRefs(force.energy) \subseteq 1..(n + 1)

RgExpressionSound(force) ==
    /\ Parse(force.energy).ok
    /\ 0 \notin Divisors(force.energy)

Constructed == {c \in CVs : cvForce[c].kind = "CustomCentroidBondForce"}

\* C10 as stated: for every atom list of length n >= 0 the constructor
\* declares n+1 groups per bond, registers the n single-atom groups and the
\* group of all atoms with weights 1, adds one bond over groups 0..n, and
\* builds a well-formed expression over g1..g(n+1) whose divisor is not zero.
C10_ConstructedForAnyLength ==
    \A c \in Constructed :
        (outcome.kind = "constructed" /\ outcome.self = c) =>
        /\ RgStructure(cvForce[c], rgAtoms[c])
        /\ RgExpressionSound(cvForce[c])

\* C10 amended: the groups, the bond and the group variables are as stated
\* for every length n >= 0; the expression is well-formed with a non-zero
\* divisor exactly when n >= 1 (for the empty list it is "sqrt(()/0)").
C10_ConstructedForNonEmpty ==
    \A c \in Constructed :
        (outcome.kind = "constructed" /\ outcome.self = c) =>
        /\ RgStructure(cvForce[c], rgAtoms[c])
        /\ Len(rgAtoms[c]) >= 1 =>
              /\ RgExpressionSound(cvForce[c])
              /\ GroupRefs(cvForce[c].energy) = 1..(Len(rgAtoms[c]) + 1)
        /\ Len(rgAtoms[c]) = 0 =>
              /\ ~Parse(cvForce[c].energy).ok
              /\ Divisors(cvForce[c].energy) = {0}

\* A variable was constructed over three atoms given out of index order.
C10_Witness ==
    \E c \in Constructed :
        /\ Len(rgAtoms[c]) = 3
        /\ rgAtoms[c][1] > rgAtoms[c][3]
        /\ outcome.kind = "constructed"


CtorKinds == {"constructed", "TypeError"}

\* C4: once OpenMMForceWrapper(f, unit, period) has been constructed from a
\* force of host class C, given as an object or as its XML text, the new
\* object is an instance of C and of BaseCollectiveVariable (and so is every
\* wrapper constructed before it, of the class it wrapped).
C4_WrapperIsInstanceOfWrappedClass ==
    /\ outcome.kind = "constructed" =>
          /\ wrappers[outcome.self].dict.this.class = outcome.result.class
          /\ IsInstance(wrappers[outcome.self], outcome.result.class)
          /\ IsInstance(wrappers[outcome.self], "BaseCollectiveVariable")
    /\ \A i \in DOMAIN wrappers :
          /\ IsInstance(wrappers[i], wrappers[i].dict.this.class)
          /\ IsInstance(wrappers[i], "BaseCollectiveVariable")

\* A second wrapper was constructed, from the XML text of a force.
C4_Witness ==
    /\ outcome.kind = "constructed"
    /\ outcome.result.form = "str"
    /\ outcome.self = 2
    /\ wrappers[1].dict.this.class # wrappers[2].dict.this.class

\* C8: a wrapper is an instance of no host class other than the one its own
\* construction wrapped; later constructions do not change that.
C8_OnlyOwnClassExtended ==
    \A i \in DOMAIN wrappers : \A B \in HostClasses :
        IsInstance(wrappers[i], B) => B = wrappers[i].dict.this.class

\* C9: every construction from a valid force completes without error,
\* whatever was constructed before, and leaves the bases free of duplicates.
C9_ConstructionAlwaysSucceeds ==
    (outcome.kind \in CtorKinds /\ outcome.result.valid)
    => (outcome.kind = "constructed" /\ ~HasDuplicates(wrapperBases))

====
